---- MODULE Spec2Model ----
(***************************************************************************)
(* FinanceDetective: the extraction pipeline of financial_detective.py.   *)
(*                                                                         *)
(* Spec    one call of FinancialDetective.extract_knowledge_graph: read    *)
(*         the file, build the prompt, the retry loop of _call_llm, parse, *)
(*         validate / shallow repair, report and return.                   *)
(* SpecFn  the pure functions (_validate_json_schema, the shallow repair,  *)
(*         the response clean-up, the edge filter of visualize_graph)      *)
(*         applied to inputs drawn from bounded sets.                      *)
(*                                                                         *)
(* Python values are tagged records.  A JSON string is a sequence of       *)
(* symbols: one-character strings, and whole words ("Company",             *)
(* "entities") taken as one symbol.  A completion text is a sequence of    *)
(* character records Ch(c); the serialisation of a JSON value v inside a   *)
(* text is the single symbol Doc(v), which json.loads turns back into v.   *)
(***************************************************************************)
EXTENDS Integers, Sequences, FiniteSets, TLC

VARIABLES
    pc,             \* position in extract_knowledge_graph
    file,           \* what open/read of text_file_path yields
    text,           \* the document text read
    prompt,         \* the prompt built from it
    attempt,        \* loop index of _call_llm
    requests,       \* number of requests.post calls made
    sleeps,         \* the time.sleep durations, in order
    outcomes,       \* the outcome of each request, in order
    llm,            \* how _call_llm ended
    graph_data,     \* the parsed payload
    result,         \* what the caller of extract_knowledge_graph got
    stages,         \* the stages that ran, in order
    fn,             \* SpecFn: the function applied
    arg,            \* SpecFn: its input
    out,            \* SpecFn: its result
    host            \* the program around the call: main, or the UI session

vars == << pc, file, text, prompt, attempt, requests, sleeps, outcomes, llm,
           graph_data, result, stages, fn, arg, out, host >>

callVars == << pc, file, text, prompt, attempt, requests, sleeps, outcomes, llm,
               graph_data, result, stages, host >>

fnVars == << fn, arg, out >>

-----------------------------------------------------------------------------
(* Bounds of the model. *)

\* entities / relationships per list of a validator candidate
MaxEntities == 2
MaxRels == 1
\* pieces (fence, tag, blank, letter, document) of a raw completion text
MaxPieces == 3
\* entities / relationships per list of a completion payload in a whole call
PipeMaxEntities == 2
PipeMaxRels == 1

\* self.max_retries
max_retries == 3

-----------------------------------------------------------------------------
(* Python values. *)

Ret(v) == [kind |-> "return", val |-> v]
Raise(e) == [kind |-> "raise", exc |-> e]
Raised(r) == r.kind = "raise"

PyNone == [t |-> "None"]
JNum(n) == [t |-> "num", n |-> n]
JStr(s) == [t |-> "str", s |-> s]
JList(l) == [t |-> "list", l |-> l]
JDict(d) == [t |-> "dict", d |-> d]
EmptyDict == JDict([k \in {} |-> PyNone])

\* d with d[k] = v  (dict item assignment)
DictSet(d, k, v) == [x \in (DOMAIN d) \cup {k} |-> IF x = k THEN v ELSE d[x]]

\* the key as a string value: the word is one symbol
Word(k) == JStr(<< k >>)

\* isinstance(x, dict), isinstance(x, list)
IsDict(x) == x.t = "dict"
IsList(x) == x.t = "list"

\* p occurs in s as a contiguous run
Contains(s, p) ==
    \E i \in 0..(Len(s) - Len(p)) : SubSeq(s, i + 1, i + Len(p)) = p

\* key in x, for a string key
PyIn(k, x) ==
    CASE x.t = "dict" -> Ret(k \in DOMAIN x.d)
      [] x.t = "list" -> Ret(\E i \in 1..Len(x.l) : x.l[i] = Word(k))
      [] x.t = "str"  -> Ret(Contains(x.s, << k >>))
      [] OTHER        -> Raise("TypeError")

\* x[k] = v, for a string key
PySetItem(x, k, v) ==
    IF x.t = "dict" THEN Ret(JDict(DictSet(x.d, k, v))) ELSE Raise("TypeError")

\* x[k], for a string key
PyGetItem(x, k) ==
    CASE x.t = "dict" -> IF k \in DOMAIN x.d THEN Ret(x.d[k]) ELSE Raise("KeyError")
      [] OTHER        -> Raise("TypeError")

\* len(x)
PyLen(x) ==
    CASE x.t = "dict" -> Ret(Cardinality(DOMAIN x.d))
      [] x.t = "list" -> Ret(Len(x.l))
      [] x.t = "str"  -> Ret(Len(x.s))
      [] OTHER        -> Raise("TypeError")

-----------------------------------------------------------------------------
(* Completion texts. *)

Ch(c) == [c |-> c]
Doc(v) == [c |-> "doc", v |-> v]
IsDoc(sym) == sym.c = "doc"

Chars(s) == [i \in 1..Len(s) |-> Ch(s[i])]

\* the backquote character (a name: the character itself cannot be written here)
Backquote == "backquote"

Fence == Chars(<< Backquote, Backquote, Backquote >>)
FenceJson == Fence \o Chars(<< "j", "s", "o", "n" >>)

IsSpace(sym) == sym.c \in {" ", "\n"}

RECURSIVE LStrip(_)
LStrip(s) == IF s # << >> /\ IsSpace(Head(s)) THEN LStrip(Tail(s)) ELSE s

RECURSIVE RStrip(_)
RStrip(s) ==
    IF s # << >> /\ IsSpace(s[Len(s)]) THEN RStrip(SubSeq(s, 1, Len(s) - 1)) ELSE s

\* str.strip()
Strip(s) == RStrip(LStrip(s))

\* s.startswith(p), s.endswith(p)
StartsWith(s, p) == Len(s) >= Len(p) /\ SubSeq(s, 1, Len(p)) = p
EndsWith(s, p) == Len(s) >= Len(p) /\ SubSeq(s, Len(s) - Len(p) + 1, Len(s)) = p

\* s[n:], s[:-n]
From(s, n) == SubSeq(s, n + 1, Len(s))
ButLast(s, n) == SubSeq(s, 1, Len(s) - n)

\* the clean-up of the response in _call_llm
CleanResponse(content) ==
    LET c1 == Strip(content)
        c2 == IF StartsWith(c1, FenceJson) THEN From(c1, 7) ELSE c1
        c3 == IF StartsWith(c2, Fence) THEN From(c2, 3) ELSE c2
        c4 == IF EndsWith(c3, Fence) THEN ButLast(c3, 3) ELSE c3
    IN  Strip(c4)

\* json.loads(s): blanks around one document
json_loads(s) ==
    IF s.t # "str" THEN Raise("TypeError")
    ELSE LET body == Strip(s.s)
         IN  IF Len(body) = 1 /\ IsDoc(body[1]) THEN Ret(body[1].v)
             ELSE Raise("JSONDecodeError")

-----------------------------------------------------------------------------
(* _validate_json_schema, the shallow repair and the report line. *)

EntityTypes == { Word("Company"), Word("RiskFactor"), Word("Amount") }

\* the entity loop without the check of the type against the three kinds
RECURSIVE ValidateEntitiesAnyType(_, _)
ValidateEntitiesAnyType(l, i) ==
    IF i > Len(l) THEN TRUE
    ELSE IF ~IsDict(l[i]) THEN FALSE
    ELSE IF "id" \notin DOMAIN l[i].d \/ "type" \notin DOMAIN l[i].d
            \/ "name" \notin DOMAIN l[i].d THEN FALSE
    ELSE ValidateEntitiesAnyType(l, i + 1)

\* the loop over data["entities"], from index i on
RECURSIVE ValidateEntities(_, _)
ValidateEntities(l, i) ==
    IF i > Len(l) THEN TRUE
    ELSE IF ~IsDict(l[i]) THEN FALSE
    ELSE IF "id" \notin DOMAIN l[i].d \/ "type" \notin DOMAIN l[i].d
            \/ "name" \notin DOMAIN l[i].d THEN FALSE
    ELSE IF l[i].d["type"] \notin EntityTypes THEN FALSE
    ELSE ValidateEntities(l, i + 1)

\* the loop over data["relationships"], from index i on
RECURSIVE ValidateRelationships(_, _)
ValidateRelationships(l, i) ==
    IF i > Len(l) THEN TRUE
    ELSE IF ~IsDict(l[i]) THEN FALSE
    ELSE IF "source" \notin DOMAIN l[i].d \/ "target" \notin DOMAIN l[i].d
            \/ "type" \notin DOMAIN l[i].d THEN FALSE
    ELSE ValidateRelationships(l, i + 1)

_validate_json_schema(data) ==
    IF ~IsDict(data) THEN Ret(FALSE)
    ELSE IF "entities" \notin DOMAIN data.d \/ "relationships" \notin DOMAIN data.d
         THEN Ret(FALSE)
    ELSE IF ~IsList(data.d["entities"]) \/ ~IsList(data.d["relationships"])
         THEN Ret(FALSE)
    ELSE IF ~ValidateEntities(data.d["entities"].l, 1) THEN Ret(FALSE)
    ELSE IF ~ValidateRelationships(data.d["relationships"].l, 1) THEN Ret(FALSE)
    ELSE Ret(TRUE)

\* the default assigned whether or not the key is there
DefaultKeyAlways(g, key) == PySetItem(g, key, JList(<< >>))

\* if key not in graph_data: graph_data[key] = []
DefaultKey(g, key) ==
    LET has == PyIn(key, g)
    IN  IF Raised(has) THEN has
        ELSE IF has.val THEN Ret(g)
        ELSE PySetItem(g, key, JList(<< >>))

\* the body of "if not self._validate_json_schema(graph_data)"
ShallowRepair(g) ==
    LET r1 == DefaultKey(g, "entities")
    IN  IF Raised(r1) THEN r1 ELSE DefaultKey(r1.val, "relationships")

\* len(graph_data[key]) of the report line
CountOf(g, key) ==
    LET item == PyGetItem(g, key)
    IN  IF Raised(item) THEN item ELSE PyLen(item.val)

\* a report line that prints no counts
ReportNoCounts(g) == Ret(0)

\* print(f"... {len(graph_data['entities'])} ... {len(graph_data['relationships'])} ...")
Report(g) ==
    LET n == CountOf(g, "entities")
    IN  IF Raised(n) THEN n ELSE CountOf(g, "relationships")

\* lines 280-287: repair only what the validator rejects
RepairStep(g) ==
    IF _validate_json_schema(g).val THEN Ret(g) ELSE ShallowRepair(g)

-----------------------------------------------------------------------------
(* The inputs: JSON values a completion may hold. *)

IdA == << "a" >>
IdB == << "b" >>
IdZ == << "z" >>       \* the id of no entity

Rec(keys, f) == JDict([k \in keys |-> f[k]])

EntityFields(id, type) ==
    [k \in {"id", "type", "name"} |->
        CASE k = "id" -> JStr(id) [] k = "type" -> Word(type) [] OTHER -> JStr(<< "n" >>)]

Entity(id, type) == Rec({"id", "type", "name"}, EntityFields(id, type))

RelFields(src, tgt) ==
    [k \in {"source", "target", "type"} |->
        CASE k = "source" -> JStr(src) [] k = "target" -> JStr(tgt) [] OTHER -> Word("OWNS")]

Rel(src, tgt) == Rec({"source", "target", "type"}, RelFields(src, tgt))

WellFormedEntities ==
    { Entity(id, ty) : id \in {IdA, IdB}, ty \in {"Company", "Amount"} }
        \cup { Entity(IdA, "RiskFactor") }

BrokenEntities ==
    { Entity(IdA, "Other"),
      Rec({"type", "name"}, EntityFields(IdA, "Company")),
      Rec({"id", "name"}, EntityFields(IdA, "Company")),
      Rec({"id", "type"}, EntityFields(IdA, "Company")),
      JStr(IdA) }

WellFormedRels ==
    { Rel(IdA, IdB), Rel(IdB, IdA), Rel(IdA, IdA), Rel(IdA, IdZ), Rel(IdZ, IdB) }

BrokenRels ==
    { Rec({"target", "type"}, RelFields(IdA, IdB)),
      Rec({"source", "type"}, RelFields(IdA, IdB)),
      Rec({"source", "target"}, RelFields(IdA, IdB)),
      JStr(IdA) }

\* the sequences over S of length at most n
SeqsUpTo(S, n) == UNION { [1..k -> S] : k \in 0..n }

NotAList == { JNum(1), PyNone, Word("entities") }

\* records with any of the two top-level keys, and the values that are no record
Payloads(ents, rels, maxE, maxR) ==
    LET E == { JList(l) : l \in SeqsUpTo(ents, maxE) } \cup NotAList
        R == { JList(l) : l \in SeqsUpTo(rels, maxR) } \cup NotAList
    IN  { JDict([k \in {"entities", "relationships"} |->
                    IF k = "entities" THEN e ELSE r]) : e \in E, r \in R }
        \cup { JDict([k \in {"entities"} |-> e]) : e \in E }
        \cup { JDict([k \in {"relationships"} |-> r]) : r \in R }
        \cup { EmptyDict, JList(<< >>), JList(<< Word("entities"), Word("relationships") >>),
               JNum(1), PyNone, Word("x"),
               JStr(<< "entities", "relationships" >>) }

Candidates ==
    Payloads(WellFormedEntities \cup BrokenEntities, WellFormedRels \cup BrokenRels,
             MaxEntities, MaxRels)

-----------------------------------------------------------------------------
(* visualize_graph: the graph it builds before drawing. *)

\* usable as a dict key / graph node
Hashable(x) == x.t \notin {"list", "dict"}

\* bool(x)
Truthy(x) ==
    CASE x.t = "None" -> FALSE
      [] x.t = "num"  -> x.n # 0
      [] x.t = "str"  -> x.s # << >>
      [] x.t = "list" -> x.l # << >>
      [] OTHER        -> DOMAIN x.d # {}

\* the elements "for e in x" visits
PyIter(x) ==
    CASE x.t = "list" -> Ret(x.l)
      [] x.t = "str"  -> Ret([i \in 1..Len(x.s) |-> JStr(<< x.s[i] >>)])
      [] x.t = "dict" -> Ret(CHOOSE q \in [1..Cardinality(DOMAIN x.d) -> { Word(k) : k \in DOMAIN x.d }] :
                                \A k \in DOMAIN x.d : \E i \in DOMAIN q : q[i] = Word(k))
      [] OTHER        -> Raise("TypeError")

\* str(x) inside an f-string
Format(x) ==
    CASE x.t = "str" -> x.s
      [] x.t = "num" -> << ToString(x.n) >>
      [] OTHER       -> << x.t >>

\* node_label = entity["name"]; if entity.get("value"): node_label += f"\n({value})"
NodeLabel(entity) ==
    LET name == entity.d["name"]
        value == IF "value" \in DOMAIN entity.d THEN entity.d["value"] ELSE PyNone
        suffix == << "\n", "(" >> \o Format(value) \o << ")" >>
    IN  IF ~Truthy(value) THEN Ret(name)
        ELSE IF name.t = "str" THEN Ret(JStr(name.s \o suffix))
        ELSE IF name.t = "list"
             THEN Ret(JList(name.l \o [i \in 1..Len(suffix) |-> JStr(<< suffix[i] >>)]))
        ELSE Raise("TypeError")

EmptyGraph == [nodes |-> << >>, edges |-> {}]

\* the loop over graph_data["entities"], from index i on; G.nodes doubles as entity_map
RECURSIVE AddNodes(_, _, _)
AddNodes(ents, i, G) ==
    IF i > Len(ents) THEN Ret(G)
    ELSE LET entity == ents[i]
         IN  IF ~IsDict(entity) THEN Raise("TypeError")
             ELSE IF "id" \notin DOMAIN entity.d THEN Raise("KeyError")
             ELSE IF ~Hashable(entity.d["id"]) THEN Raise("TypeError")
             ELSE IF "name" \notin DOMAIN entity.d THEN Raise("KeyError")
             ELSE IF Raised(NodeLabel(entity)) THEN NodeLabel(entity)
             ELSE IF "type" \notin DOMAIN entity.d THEN Raise("KeyError")
             ELSE IF entity.d["id"].t = "None" THEN Raise("ValueError")
             ELSE AddNodes(ents, i + 1,
                    [G EXCEPT !.nodes =
                        [n \in (DOMAIN G.nodes) \cup {entity.d["id"]} |->
                            IF n = entity.d["id"]
                            THEN [label |-> NodeLabel(entity).val,
                                  type |-> entity.d["type"],
                                  name |-> entity.d["name"]]
                            ELSE G.nodes[n]]])

\* the test of the source alone
KeepEdgeSourceOnly(source, target, entity_map) == source \in DOMAIN entity_map

\* if source in entity_map and target in entity_map
KeepEdge(source, target, entity_map) ==
    source \in DOMAIN entity_map /\ target \in DOMAIN entity_map

\* the loop over graph_data["relationships"], from index i on
RECURSIVE AddEdges(_, _, _)
AddEdges(rels, i, G) ==
    IF i > Len(rels) THEN Ret(G)
    ELSE LET rel == rels[i]
         IN  IF ~IsDict(rel) THEN Raise("TypeError")
             ELSE IF "source" \notin DOMAIN rel.d THEN Raise("KeyError")
             ELSE IF "target" \notin DOMAIN rel.d THEN Raise("KeyError")
             ELSE IF ~Hashable(rel.d["source"]) THEN Raise("TypeError")
             ELSE IF rel.d["source"] \in DOMAIN G.nodes /\ ~Hashable(rel.d["target"])
                  THEN Raise("TypeError")
             ELSE IF ~KeepEdge(rel.d["source"], rel.d["target"], G.nodes)
                  THEN AddEdges(rels, i + 1, G)
             ELSE IF "type" \notin DOMAIN rel.d THEN Raise("KeyError")
             ELSE AddEdges(rels, i + 1,
                    [G EXCEPT !.edges = @ \cup {<< rel.d["source"], rel.d["target"] >>}])

\* labels = {node_id: G.nodes[node_id]["name"][:20] ...}
LabelsOk(G) == \A n \in DOMAIN G.nodes : G.nodes[n].name.t \in {"str", "list"}

visualize_graph(g) ==
    LET ents == IF Raised(PyGetItem(g, "entities")) THEN PyGetItem(g, "entities")
                ELSE PyIter(PyGetItem(g, "entities").val)
        withNodes == IF Raised(ents) THEN ents ELSE AddNodes(ents.val, 1, EmptyGraph)
        rels == IF Raised(PyGetItem(g, "relationships"))
                THEN PyGetItem(g, "relationships")
                ELSE PyIter(PyGetItem(g, "relationships").val)
        withEdges == IF Raised(rels) THEN rels ELSE AddEdges(rels.val, 1, withNodes.val)
    IN  IF Raised(withNodes) THEN withNodes
        ELSE IF Raised(withEdges) THEN withEdges
        ELSE IF ~LabelsOk(withEdges.val) THEN Raise("TypeError")
        ELSE withEdges

-----------------------------------------------------------------------------
(* generate_mermaid_chart: the lines of the chart. *)

\* s.replace(old, new), for one-character old and new
Replace(s, old, new) == [i \in 1..Len(s) |-> IF s[i] = old THEN new ELSE s[i]]

\* the sanitizer that forgets the hyphen
SanitizeSpacesOnly(x) ==
    IF x.t = "str" THEN Ret(Replace(x.s, " ", "_")) ELSE Raise("AttributeError")

\* x.replace(" ", "_").replace("-", "_")
Sanitize(x) ==
    IF x.t = "str" THEN Ret(Replace(Replace(x.s, " ", "_"), "-", "_"))
    ELSE Raise("AttributeError")

\* the style chosen by entity_type
StyleOf(entity_type) ==
    CASE entity_type = Word("Company")    -> "fill:#4A90E2,stroke:#333,stroke-width:2px"
      [] entity_type = Word("RiskFactor") -> "fill:#E24A4A,stroke:#333,stroke-width:2px"
      [] entity_type = Word("Amount")     -> "fill:#4AE24A,stroke:#333,stroke-width:2px"
      [] OTHER                            -> "fill:#E2E24A,stroke:#333,stroke-width:2px"

\* f'    {entity_id}["{name}"]'
NodeLine(entity_id, name) ==
    << "    " >> \o entity_id \o << "[", "dquote" >> \o Format(name) \o << "dquote", "]" >>

\* f'    style {entity_id} {style}'
StyleLine(entity_id, style) == << "    style " >> \o entity_id \o << " ", style >>

\* f'    {source} -->|{rel_type}| {target}'
EdgeLine(source, rel_type, target) ==
    << "    " >> \o source \o << " -->|" >> \o Format(rel_type) \o << "| " >> \o target

\* the loop over graph_data["entities"], from index i on
RECURSIVE ChartNodes(_, _, _)
ChartNodes(ents, i, lines) ==
    IF i > Len(ents) THEN Ret(lines)
    ELSE LET entity == ents[i]
         IN  IF ~IsDict(entity) THEN Raise("TypeError")
             ELSE IF "id" \notin DOMAIN entity.d THEN Raise("KeyError")
             ELSE IF Raised(Sanitize(entity.d["id"])) THEN Sanitize(entity.d["id"])
             ELSE IF "name" \notin DOMAIN entity.d THEN Raise("KeyError")
             ELSE IF "type" \notin DOMAIN entity.d THEN Raise("KeyError")
             ELSE ChartNodes(ents, i + 1,
                    lines \o << NodeLine(Sanitize(entity.d["id"]).val, entity.d["name"]),
                                StyleLine(Sanitize(entity.d["id"]).val,
                                          StyleOf(entity.d["type"])) >>)

\* the loop over graph_data["relationships"], from index i on
RECURSIVE ChartEdges(_, _, _)
ChartEdges(rels, i, lines) ==
    IF i > Len(rels) THEN Ret(lines)
    ELSE LET rel == rels[i]
         IN  IF ~IsDict(rel) THEN Raise("TypeError")
             ELSE IF "source" \notin DOMAIN rel.d THEN Raise("KeyError")
             ELSE IF Raised(Sanitize(rel.d["source"])) THEN Sanitize(rel.d["source"])
             ELSE IF "target" \notin DOMAIN rel.d THEN Raise("KeyError")
             ELSE IF Raised(Sanitize(rel.d["target"])) THEN Sanitize(rel.d["target"])
             ELSE IF "type" \notin DOMAIN rel.d THEN Raise("KeyError")
             ELSE ChartEdges(rels, i + 1,
                    Append(lines, EdgeLine(Sanitize(rel.d["source"]).val, rel.d["type"],
                                           Sanitize(rel.d["target"]).val)))

\* the chart written: mermaid_lines and the two counts of the summary
generate_mermaid_chart(g) ==
    LET ents == IF Raised(PyGetItem(g, "entities")) THEN PyGetItem(g, "entities")
                ELSE PyIter(PyGetItem(g, "entities").val)
        nodes == IF Raised(ents) THEN ents ELSE ChartNodes(ents.val, 1, << << "graph TD" >> >>)
        rels == IF Raised(PyGetItem(g, "relationships")) THEN PyGetItem(g, "relationships")
                ELSE PyIter(PyGetItem(g, "relationships").val)
        edges == IF Raised(rels) THEN rels ELSE ChartEdges(rels.val, 1, nodes.val)
    IN  IF Raised(nodes) THEN nodes
        ELSE IF Raised(edges) THEN edges
        ELSE IF Raised(Report(g)) THEN Report(g)
        ELSE Ret([lines |-> edges.val,
                  entities |-> CountOf(g, "entities").val,
                  relationships |-> CountOf(g, "relationships").val])

\* ids with a space and with a hyphen
IdSpace == << "a", " ", "b" >>
IdHyphen == << "a", "-", "b" >>

\* an entity with a value
EntityWithValue(id, type, value) ==
    JDict([k \in {"id", "type", "name", "value"} |->
              IF k = "value" THEN value ELSE EntityFields(id, type)[k]])

ChartEntities ==
    { Entity(IdA, "Company"), Entity(IdSpace, "Amount"), Entity(IdHyphen, "RiskFactor"),
      Entity(IdSpace, "Other"),
      EntityWithValue(IdA, "Amount", JStr(<< "$", "1" >>)),
      EntityWithValue(IdHyphen, "Amount", JNum(0)),
      EntityWithValue(IdSpace, "Company", PyNone),
      Rec({"id", "type"}, EntityFields(IdA, "Company")),
      JDict([k \in {"id", "type", "name"} |->
                IF k = "id" THEN JNum(1) ELSE EntityFields(IdA, "Company")[k]]),
      JDict([k \in {"id", "type", "name"} |->
                IF k = "id" THEN JList(<< >>) ELSE EntityFields(IdA, "Company")[k]]) }

ChartRels ==
    { Rel(IdA, IdSpace), Rel(IdSpace, IdHyphen), Rel(IdHyphen, IdZ),
      Rec({"source", "type"}, RelFields(IdA, IdB)),
      JDict([k \in {"source", "target", "type"} |->
                IF k = "source" THEN JNum(1) ELSE RelFields(IdA, IdB)[k]]) }

ChartGraphs == Payloads(ChartEntities, ChartRels, MaxEntities, MaxRels)

-----------------------------------------------------------------------------
(* __init__: the client built from a provider name, a key and the environment. *)

\* str.lower() of the provider names used
Lower(p) ==
    CASE p = "GROQ" -> "groq"
      [] p = "OpenAI" -> "openai"
      [] OTHER -> p

ProviderNames == { "groq", "GROQ", "openai", "OpenAI", "anthropic", "" }

\* an explicit key, or what os.getenv returns: None, the empty string, a key
KeyValues == { PyNone, JStr(<< >>), JStr(<< "k" >>) }

Environments == [ {"GROQ_API_KEY", "OPENAI_API_KEY"} -> KeyValues ]

\* the else branch of the key lookup, for a provider that is neither groq nor openai
EnvKey(provider, env) ==
    CASE provider = "groq" -> Ret(env["GROQ_API_KEY"])
      [] provider = "openai" -> Ret(env["OPENAI_API_KEY"])
      [] OTHER -> Raise("ValueError: Unknown API provider")

\* the endpoint and model: groq, or else openai
Endpoint(provider) ==
    IF provider = "groq"
    THEN [api_url |-> "https://api.groq.com/openai/v1/chat/completions",
          model |-> "llama-3.3-70b-versatile"]
    ELSE [api_url |-> "https://api.openai.com/v1/chat/completions",
          model |-> "gpt-4o"]

\* a missing key replaced by an empty one
NewDetectorAnyKey(api_provider, api_key, env) ==
    Ret([api_provider |-> Lower(api_provider),
         api_key |-> IF Truthy(api_key) THEN api_key ELSE JStr(<< >>),
         api_url |-> Endpoint(Lower(api_provider)).api_url,
         model |-> Endpoint(Lower(api_provider)).model,
         max_retries |-> max_retries])

\* FinancialDetective(api_provider, api_key), with the environment it reads
NewDetector(api_provider, api_key, env) ==
    LET provider == Lower(api_provider)
        key == IF Truthy(api_key) THEN Ret(api_key) ELSE EnvKey(provider, env)
    IN  IF Raised(key) THEN key
        ELSE IF ~Truthy(key.val) THEN Raise("ValueError: API_KEY not found in environment")
        ELSE Ret([api_provider |-> provider,
                  api_key |-> key.val,
                  api_url |-> Endpoint(provider).api_url,
                  model |-> Endpoint(provider).model,
                  max_retries |-> max_retries])

NoEnv == [v \in {"GROQ_API_KEY", "OPENAI_API_KEY"} |-> PyNone]

\* two clients of different providers
Detectors ==
    { NewDetector(p, JStr(<< "k" >>), NoEnv).val : p \in {"groq", "openai"} }

-----------------------------------------------------------------------------
(* The inputs of one call: the file, and what the completion service sends. *)

Documents == { << "d" >>, << "d", " ", "e" >> }

Files == { [kind |-> "missing"], [kind |-> "undecodable"] }
            \cup { [kind |-> "text", s |-> d] : d \in Documents }

PromptHead ==
    << "You are a financial data extraction expert.", "EXTRACTION REQUIREMENTS:",
       "OUTPUT FORMAT (strict JSON):", "RULES:", "TEXT TO ANALYZE:", "\n" >>
PromptTail == << "\n", "Return ONLY the JSON object, no additional text or explanation." >>

\* the prompt with the document cut to its first symbol
BuildPromptTruncated(t) ==
    PromptHead \o (IF t = << >> THEN t ELSE << Head(t) >>) \o PromptTail

_build_extraction_prompt(t) == PromptHead \o t \o PromptTail

\* document texts for the prompt builder alone
PromptTexts == Documents \cup { << >>, << "{", "text", "}" >>, << "TEXT TO ANALYZE:", "\n", "x" >> }

\* a fenced text: blanks, the opening marker with its tag, a line break, the
\* interior, a line break, the closing marker, blanks; and the same without the
\* markers
FencedTexts ==
    LET Blanks == { << >>, << Ch(" ") >>, << Ch("\n"), Ch(" ") >> }
        Tags == { << >>, Chars(<< "j", "s", "o", "n" >>), Chars(<< "x" >>) }
        Interiors == { << Doc(EmptyDict) >>, << Doc(EmptyDict), Ch(" "), Ch("x") >> }
    IN  { [kind |-> "fenced", form |-> "fenced", tag |-> t, interior |-> i,
           s |-> b1 \o Fence \o t \o << Ch("\n") >> \o i \o << Ch("\n") >> \o Fence \o b2] :
              b1 \in Blanks, b2 \in Blanks, t \in Tags, i \in Interiors }
        \cup { [kind |-> "fenced", form |-> "plain", tag |-> << >>, interior |-> i,
                s |-> b1 \o i \o b2] : b1 \in Blanks, b2 \in Blanks, i \in Interiors }

PipePayloads ==
    Payloads({ Entity(IdA, "Company"), Entity(IdB, "Amount"),
               Rec({"id", "type"}, EntityFields(IdA, "Company")) },
             { Rel(IdA, IdB), Rel(IdA, IdZ), Rec({"source", "type"}, RelFields(IdA, IdB)) },
             PipeMaxEntities, PipeMaxRels)

\* the content of a successful response: a document, bare or fenced, or no document
Completions ==
    { << Doc(p) >> : p \in PipePayloads }
        \cup { FenceJson \o << Ch("\n"), Doc(p), Ch("\n") >> \o Fence : p \in PipePayloads }
        \cup { << >>,
               Chars(<< "x" >>),
               << Doc(EmptyDict), Doc(EmptyDict) >>,
               Fence \o Chars(<< "x", "\n" >>) \o << Doc(EmptyDict), Ch("\n") >> \o Fence }

\* the pieces a raw text is made of
Pieces ==
    { Fence, Chars(<< "j", "s", "o", "n" >>), << Ch(" ") >>, << Ch("x") >>,
      << Ch(Backquote) >>, << Doc(EmptyDict) >> }

RECURSIVE Flatten(_)
Flatten(ps) == IF ps = << >> THEN << >> ELSE Head(ps) \o Flatten(Tail(ps))

RawTexts == { Flatten(ps) : ps \in SeqsUpTo(Pieces, MaxPieces) }

\* no program around the call
NoHost == [kind |-> "none"]

HostEntitiesOnly == JDict([k \in {"entities"} |-> JList(<< Entity(IdA, "Company") >>)])

HostGraph(es, rs) ==
    JDict([k \in {"entities", "relationships"} |->
              IF k = "entities" THEN JList(es) ELSE JList(rs)])

\* the answers of the service when the call runs inside main or the UI: a valid
\* graph, a graph to repair, a graph no chart can be made of, an answer that
\* does not parse, a list, an empty graph
HostCompletions ==
    { << Doc(HostGraph(<< Entity(IdA, "Company") >>, << Rel(IdA, IdA) >>)) >>,
      << Doc(HostEntitiesOnly) >>,
      << Doc(HostGraph(<< Rec({"id", "type"}, EntityFields(IdA, "Company")) >>, << >>)) >>,
      << Doc(HostGraph(<< >>, << >>)) >>,
      << Doc(JList(<< Word("entities"), Word("relationships") >>)) >>,
      Chars(<< "x" >>) }

CompletionsOf(h) == IF h.kind = "none" THEN Completions ELSE HostCompletions

-----------------------------------------------------------------------------
(* _call_llm: one iteration of "for attempt in range(self.max_retries)". *)

Running == [kind |-> "running"]
Idle == [kind |-> "idle"]

\* wait_time = (2 ** attempt) * 2
RateLimitBackoff(a) == (2 ^ a) * 2

\* the rate-limit schedule used for errors too
ErrorBackoffDoubled(a) == (2 ^ a) * 2

\* time.sleep(2 ** attempt)
ErrorBackoff(a) == 2 ^ a

\* if attempt < self.max_retries - 1: sleep, continue; else raise
RetryAllowed(a) == a < max_retries - 1

\* the for loop ran out: the function body ends, the call returns None
LoopExhausted == Ret(PyNone)

\* the request went out and came back as `kind`
Sent(kind) ==
    /\ pc = "attempt"
    /\ attempt < max_retries
    /\ requests' = requests + 1
    /\ outcomes' = Append(outcomes, kind)
    /\ UNCHANGED << file, text, prompt, graph_data, fn, arg, out, host >>

\* continue: the next iteration, or the end of the loop
Continue(wait) ==
    /\ sleeps' = Append(sleeps, wait)
    /\ attempt' = attempt + 1
    /\ IF attempt + 1 < max_retries
       THEN UNCHANGED << pc, llm, result, stages >>
       ELSE /\ llm' = LoopExhausted
            /\ pc' = "parse"
            /\ UNCHANGED << result, stages >>

\* the exception leaves _call_llm and extract_knowledge_graph
Propagate(exc) ==
    /\ llm' = Raise(exc)
    /\ result' = Raise(exc)
    /\ pc' = "raised"
    /\ UNCHANGED << attempt, sleeps, stages >>

\* response.status_code == 429
AttemptRateLimited ==
    /\ Sent("429")
    /\ Continue(RateLimitBackoff(attempt))

\* response.status_code != 200: retried, and raised through the except clause at the end
AttemptHttpError ==
    /\ Sent("http_error")
    /\ IF RetryAllowed(attempt) THEN Continue(ErrorBackoff(attempt)) ELSE Propagate("Exception")

\* requests.post raises (timeout, connection error), or the body of a 200 response
\* is no JSON or has no choices[0].message.content string: the except clause
AttemptException ==
    \E kind \in {"transport", "malformed"} :
        /\ Sent(kind)
        /\ IF RetryAllowed(attempt) THEN Continue(ErrorBackoff(attempt))
           ELSE Propagate(IF kind = "transport" THEN "RequestException" ELSE "ValueError")

\* status 200 with a content string: clean it up and return it
AttemptSuccess ==
    \E content \in CompletionsOf(host) :
        /\ Sent("200")
        /\ llm' = Ret(JStr(CleanResponse(content)))
        /\ pc' = "parse"
        /\ UNCHANGED << attempt, sleeps, result, stages >>

-----------------------------------------------------------------------------
(* extract_knowledge_graph. *)

Pending == [kind |-> "pending"]

\* graph_data before the assignment
Unset == [t |-> "unset"]

\* the stage's exception ends the call
Fail(r) ==
    /\ result' = r
    /\ pc' = "raised"

\* with open(text_file_path, 'r', encoding='utf-8') as f: text = f.read()
ReadFile ==
    /\ pc = "read"
    /\ stages' = Append(stages, "read")
    /\ CASE file.kind = "missing" -> Fail(Raise("FileNotFoundError")) /\ UNCHANGED text
         [] file.kind = "undecodable" -> Fail(Raise("UnicodeDecodeError")) /\ UNCHANGED text
         [] OTHER -> text' = file.s /\ pc' = "prompt" /\ UNCHANGED result
    /\ UNCHANGED << file, prompt, attempt, requests, sleeps, outcomes, llm, graph_data,
                    fn, arg, out, host >>

\* prompt = self._build_extraction_prompt(text)
BuildPrompt ==
    /\ pc = "prompt"
    /\ stages' = Append(stages, "prompt")
    /\ prompt' = _build_extraction_prompt(text)
    /\ pc' = "call"
    /\ UNCHANGED << file, text, attempt, requests, sleeps, outcomes, llm, graph_data,
                    result, fn, arg, out, host >>

\* response_text = self._call_llm(prompt): enter the loop
CallLLM ==
    /\ pc = "call"
    /\ stages' = Append(stages, "call")
    /\ llm' = Running
    /\ attempt' = 0
    /\ pc' = "attempt"
    /\ UNCHANGED << file, text, prompt, requests, sleeps, outcomes, graph_data,
                    result, fn, arg, out, host >>

\* a parse failure answered by calling the completion client again
ParseJSONRequery ==
    /\ pc = "parse"
    /\ stages' = Append(stages, "parse")
    /\ IF Raised(json_loads(llm.val))
       THEN IF requests < max_retries
            THEN pc' = "attempt" /\ UNCHANGED << graph_data, result >>
            ELSE Fail(json_loads(llm.val)) /\ UNCHANGED graph_data
       ELSE graph_data' = json_loads(llm.val).val /\ pc' = "validate" /\ UNCHANGED result
    /\ UNCHANGED << file, text, prompt, attempt, requests, sleeps, outcomes, llm,
                    fn, arg, out, host >>

\* graph_data = json.loads(response_text); a JSONDecodeError is printed and re-raised
ParseJSON ==
    /\ pc = "parse"
    /\ stages' = Append(stages, "parse")
    /\ IF Raised(json_loads(llm.val))
       THEN Fail(json_loads(llm.val)) /\ UNCHANGED graph_data
       ELSE graph_data' = json_loads(llm.val).val /\ pc' = "validate" /\ UNCHANGED result
    /\ UNCHANGED << file, text, prompt, attempt, requests, sleeps, outcomes, llm,
                    fn, arg, out, host >>

\* if not self._validate_json_schema(graph_data): default the missing keys
ValidateRepair ==
    /\ pc = "validate"
    /\ stages' = Append(stages, "validate")
    /\ IF Raised(RepairStep(graph_data))
       THEN Fail(RepairStep(graph_data)) /\ UNCHANGED graph_data
       ELSE graph_data' = RepairStep(graph_data).val /\ pc' = "report" /\ UNCHANGED result
    /\ UNCHANGED << file, text, prompt, attempt, requests, sleeps, outcomes, llm,
                    fn, arg, out, host >>

\* print the counts; return graph_data
ReportReturn ==
    /\ pc = "report"
    /\ stages' = Append(stages, "return")
    /\ IF Raised(Report(graph_data))
       THEN Fail(Report(graph_data))
       ELSE result' = Ret(graph_data) /\ pc' = "returned"
    /\ UNCHANGED << file, text, prompt, attempt, requests, sleeps, outcomes, llm,
                    graph_data, fn, arg, out, host >>

Init ==
    /\ pc = "read"
    /\ file \in Files
    /\ text = << >>
    /\ prompt = << >>
    /\ attempt = 0
    /\ requests = 0
    /\ sleeps = << >>
    /\ outcomes = << >>
    /\ llm = Idle
    /\ graph_data = Unset
    /\ result = Pending
    /\ stages = << >>
    /\ fn = "none"
    /\ arg = [kind |-> "none"]
    /\ out = Pending
    /\ host = NoHost

Next ==
    \/ ReadFile
    \/ BuildPrompt
    \/ CallLLM
    \/ AttemptRateLimited
    \/ AttemptHttpError
    \/ AttemptException
    \/ AttemptSuccess
    \/ ParseJSON
    \/ ValidateRepair
    \/ ReportReturn

Spec == Init /\ [][Next]_vars

-----------------------------------------------------------------------------
(* The pure functions on their own. *)

ValueArg(v) == [kind |-> "value", v |-> v]
TextArg(s) == [kind |-> "text", s |-> s]

Apply(name, r) ==
    /\ fn = "none"
    /\ fn' = name
    /\ out' = r
    /\ UNCHANGED arg
    /\ UNCHANGED callVars

ApplyValidate == arg.kind = "value" /\ Apply("validate", _validate_json_schema(arg.v))

ApplyRepair == arg.kind = "value" /\ Apply("repair", RepairStep(arg.v))

\* the repair step on what the repair step returned
ApplyRepairAgain ==
    /\ fn = "repair"
    /\ ~Raised(out)
    /\ fn' = "repair_again"
    /\ arg' = ValueArg(out.val)
    /\ out' = RepairStep(out.val)
    /\ UNCHANGED callVars

ApplyVisualize == arg.kind = "value" /\ Apply("visualize", visualize_graph(arg.v))

ApplyMermaid == arg.kind = "value" /\ Apply("mermaid", generate_mermaid_chart(arg.v))

ApplyInit ==
    arg.kind = "init" /\ Apply("init", NewDetector(arg.api_provider, arg.api_key, arg.env))

\* self._build_extraction_prompt(text) on one client
ApplyPrompt == arg.kind = "prompt" /\ Apply("prompt", Ret(_build_extraction_prompt(arg.text)))

\* the same text given to the other client
ApplyPromptAgain ==
    /\ fn = "prompt"
    /\ fn' = "prompt_again"
    /\ arg' = [arg EXCEPT !.self = arg.other, !.other = arg.self]
    /\ out' = Ret([first |-> out.val, second |-> _build_extraction_prompt(arg.text)])
    /\ UNCHANGED callVars

ApplyCleanFenced == arg.kind = "fenced" /\ Apply("clean_fenced", Ret(CleanResponse(arg.s)))

ApplyClean == arg.kind = "text" /\ Apply("clean", Ret(CleanResponse(arg.s)))

\* the clean-up on what the clean-up returned
ApplyCleanAgain ==
    /\ fn = "clean"
    /\ fn' = "clean_again"
    /\ arg' = TextArg(out.val)
    /\ out' = Ret(CleanResponse(out.val))
    /\ UNCHANGED callVars

InitFn ==
    /\ pc = "idle"
    /\ file = [kind |-> "missing"]
    /\ text = << >>
    /\ prompt = << >>
    /\ attempt = 0
    /\ requests = 0
    /\ sleeps = << >>
    /\ outcomes = << >>
    /\ llm = Idle
    /\ graph_data = Unset
    /\ result = Pending
    /\ stages = << >>
    /\ fn = "none"
    /\ arg \in { ValueArg(v) : v \in Candidates \cup ChartGraphs }
                \cup { TextArg(s) : s \in RawTexts }
                \cup FencedTexts
                \cup { [kind |-> "init", api_provider |-> p, api_key |-> k, env |-> e] :
                          p \in ProviderNames, k \in KeyValues, e \in Environments }
                \cup { [kind |-> "prompt", self |-> d1, other |-> d2, text |-> t] :
                          d1 \in Detectors, d2 \in Detectors, t \in PromptTexts }
    /\ out = Pending
    /\ host = NoHost

NextFn ==
    \/ ApplyValidate
    \/ ApplyRepair
    \/ ApplyRepairAgain
    \/ ApplyVisualize
    \/ ApplyMermaid
    \/ ApplyInit
    \/ ApplyPrompt
    \/ ApplyPromptAgain
    \/ ApplyCleanFenced
    \/ ApplyClean
    \/ ApplyCleanAgain

SpecFn == InitFn /\ [][NextFn]_vars

-----------------------------------------------------------------------------
(* The retry loop of _call_llm. *)

Failures == {"http_error", "transport", "malformed"}

\* C1: when every response is a rate-limit signal, one call sends exactly 3
\* requests, sleeps 2, 4 and 8 seconds, and then raises an error.
C1_RateLimitCeiling ==
    outcomes = << "429", "429", "429" >>
        => requests = 3 /\ sleeps = << 2, 4, 8 >> /\ Raised(llm)

\* C2: whatever the outcomes of the attempts, a finished call has returned the
\* text of a successful response or raised an error; it never returns None.
C2_TextOrError ==
    llm.kind \in {"return", "raise"}
        => \/ Raised(llm)
           \/ llm.val.t = "str" /\ outcomes[Len(outcomes)] = "200"

\* C3: an error status other than 429, and a transport-level exception, is not
\* raised on the 1st or 2nd attempt: the client sleeps 1 second after the 1st
\* and 2 seconds after the 2nd and asks again; on the 3rd attempt it is raised.
C3_ErrorRetrySchedule ==
    \A i \in 1..Len(outcomes) :
        outcomes[i] \in Failures =>
            IF i < 3
            THEN /\ Len(sleeps) >= i
                 /\ sleeps[i] = << 1, 2 >>[i]
                 /\ ~(Raised(llm) /\ Len(outcomes) = i)
                 /\ Len(outcomes) = i => pc = "attempt" /\ attempt = i /\ llm = Running
            ELSE /\ Raised(llm)
                 /\ Raised(result)
                 /\ Len(sleeps) = 2

\* a call that failed twice, slept 1 and 2 seconds, and raised on the third failure
C3_Witness ==
    /\ outcomes = << "http_error", "transport", "http_error" >>
    /\ sleeps = << 1, 2 >>
    /\ requests = 3
    /\ Raised(llm)

-----------------------------------------------------------------------------
(* The validator. *)

HasKeys(x, keys) == x.t = "dict" /\ keys \subseteq DOMAIN x.d

ConformingEntity(e) ==
    /\ HasKeys(e, {"id", "type", "name"})
    /\ e.d["type"] \in { Word("Company"), Word("RiskFactor"), Word("Amount") }

ConformingRel(r) == HasKeys(r, {"source", "target", "type"})

Conforming(c) ==
    /\ HasKeys(c, {"entities", "relationships"})
    /\ c.d["entities"].t = "list"
    /\ c.d["relationships"].t = "list"
    /\ \A i \in 1..Len(c.d["entities"].l) : ConformingEntity(c.d["entities"].l[i])
    /\ \A i \in 1..Len(c.d["relationships"].l) : ConformingRel(c.d["relationships"].l[i])

\* C4: on every candidate the validator returns, without raising, true exactly
\* when the candidate is a record with both keys, both values sequences, every
\* entity a record with id, type (one of the three kinds) and name, and every
\* relationship a record with source, target and type; a record missing a
\* top-level key yields false.
C4_ValidatorIff ==
    fn = "validate" =>
        /\ out.kind = "return"
        /\ out.val = Conforming(arg.v)
        /\ ~HasKeys(arg.v, {"entities", "relationships"}) => out.val = FALSE

\* a graph of two entities and a relationship accepted
C4_Witness ==
    /\ fn = "validate"
    /\ out = Ret(TRUE)
    /\ Len(arg.v.d["entities"].l) = 2
    /\ Len(arg.v.d["relationships"].l) = 1

-----------------------------------------------------------------------------
(* Validation and shallow repair inside extract_knowledge_graph. *)

LastStage == IF stages = << >> THEN "none" ELSE stages[Len(stages)]

\* C5: a parsed payload that fails validation never makes the call fail: the
\* call repairs it and returns a graph.
C5_SchemaNeverFails ==
    graph_data # Unset => pc # "raised"

\* C6: the repair step changes a record only by adding an absent entities or
\* relationships key with an empty sequence; every key present keeps its
\* value; on a record with both keys it is a no-op; twice equals once.
C6_RepairFrame ==
    /\ fn = "repair" /\ IsDict(arg.v) =>
        /\ out.kind = "return"
        /\ IsDict(out.val)
        /\ DOMAIN out.val.d = DOMAIN arg.v.d \cup {"entities", "relationships"}
        /\ \A k \in DOMAIN arg.v.d : out.val.d[k] = arg.v.d[k]
        /\ \A k \in DOMAIN out.val.d \ DOMAIN arg.v.d : out.val.d[k] = JList(<< >>)
        /\ HasKeys(arg.v, {"entities", "relationships"}) => out.val = arg.v
    /\ fn = "repair_again" => out = Ret(arg.v)

\* a record without entities, holding a broken relationship, after repair
C6_Witness ==
    /\ fn = "repair"
    /\ arg.v = JDict([k \in {"relationships"} |->
                        JList(<< Rec({"source", "type"}, RelFields(IdA, IdB)) >>)])
    /\ out.kind = "return"
    /\ out.val.d["entities"] = JList(<< >>)
    /\ out.val.d["relationships"] = arg.v.d["relationships"]

-----------------------------------------------------------------------------
(* The clean-up of the response. *)

\* C7: the clean-up is idempotent: applied to its own result it changes nothing.
C7_CleanIdempotent ==
    fn = "clean_again" => out.val = arg.s

-----------------------------------------------------------------------------
(* extract_knowledge_graph as a whole. *)

Count(seq, x) == Cardinality({ i \in DOMAIN seq : seq[i] = x })

Ran(stage) == stage \in { stages[i] : i \in DOMAIN stages }

\* C8: when the client returned a text that does not parse, the call fails with
\* the parse error and sends no further request: no retry, no re-query, no
\* repair.
C8_ParseFailureFatal ==
    /\ llm.kind = "return" /\ llm.val.t = "str" =>
        /\ requests = Len(outcomes)
        /\ Count(outcomes, "200") = 1
        /\ outcomes[Len(outcomes)] = "200"
        /\ Count(stages, "call") = 1
    /\ llm.kind = "return" /\ llm.val.t = "str" /\ Raised(json_loads(llm.val))
         /\ Ran("parse") =>
        /\ pc = "raised"
        /\ result = Raise("JSONDecodeError")
        /\ LastStage = "parse"
        /\ graph_data = Unset

\* the second answer, a fenced text with another language tag, does not parse
C8_Witness ==
    /\ outcomes = << "429", "200" >>
    /\ llm = Ret(JStr(Chars(<< "x", "\n" >>) \o << Doc(EmptyDict) >>))
    /\ result = Raise("JSONDecodeError")
    /\ requests = 2

StageOrder == << "read", "prompt", "call", "parse", "validate", "return" >>

\* C9: the stages run in the order read, prompt, call, parse, validate/repair,
\* return; a failure of a stage (file missing or undecodable, client failure
\* after retries, parse failure) ends the call with an error and no later
\* stage runs; no request is sent when the file cannot be read; the caller
\* gets the graph or an error.
C9_StagesStopAtFailure ==
    /\ stages = SubSeq(StageOrder, 1, Len(stages))
    /\ file.kind # "text" => requests = 0 /\ ~Ran("prompt")
    /\ Len(outcomes) = max_retries /\ Count(outcomes, "200") = 0 => ~Ran("parse")
    /\ Ran("parse") /\ graph_data = Unset => pc = "raised" /\ LastStage = "parse"
    /\ pc = "raised" => Raised(result)
    /\ pc = "returned" => result = Ret(graph_data) /\ LastStage = "return"
    /\ pc \notin {"raised", "returned"} => result = Pending

-----------------------------------------------------------------------------
(* visualize_graph. *)

IsStr(x) == x.t = "str"

EntityIds(g) == { g.d["entities"].l[i].d["id"] : i \in 1..Len(g.d["entities"].l) }

\* well-formed entities; relationships that name a source and a target
Drawable(g) ==
    /\ HasKeys(g, {"entities", "relationships"})
    /\ g.d["entities"].t = "list"
    /\ g.d["relationships"].t = "list"
    /\ \A i \in 1..Len(g.d["entities"].l) :
          LET e == g.d["entities"].l[i]
          IN  HasKeys(e, {"id", "type", "name"}) /\ IsStr(e.d["id"]) /\ IsStr(e.d["name"])
    /\ \A i \in 1..Len(g.d["relationships"].l) :
          LET r == g.d["relationships"].l[i]
          IN  HasKeys(r, {"source", "target", "type"}) /\ IsStr(r.d["source"])
                /\ IsStr(r.d["target"])

\* C10: with well-formed entities, a relationship whose source or target is the
\* id of no entity is not drawn and does not make the renderer fail; every
\* edge drawn has both endpoints among the entity ids.
C10_DanglingEdgesSkipped ==
    fn = "visualize" /\ Drawable(arg.v) =>
        /\ out.kind = "return"
        /\ \A e \in out.val.edges : e[1] \in EntityIds(arg.v) /\ e[2] \in EntityIds(arg.v)
        /\ \A i \in 1..Len(arg.v.d["relationships"].l) :
              LET r == arg.v.d["relationships"].l[i]
              IN  << r.d["source"], r.d["target"] >> \in out.val.edges
                    <=> r.d["source"] \in EntityIds(arg.v) /\ r.d["target"] \in EntityIds(arg.v)

\* a graph with entity a and a relationship from a to the unknown z, drawn without edges
C10_Witness ==
    /\ fn = "visualize"
    /\ Drawable(arg.v)
    /\ arg.v.d["relationships"] = JList(<< Rel(IdA, IdZ) >>)
    /\ JStr(IdA) \in EntityIds(arg.v)
    /\ out.kind = "return"
    /\ out.val.edges = {}

-----------------------------------------------------------------------------
(* generate_mermaid_chart. *)

\* every space and hyphen of s as an underscore
Underscored(s) == [k \in DOMAIN s |-> IF s[k] \in {" ", "-"} THEN "_" ELSE s[k]]

\* records complete, ids and endpoints strings
Chartable(g) ==
    /\ HasKeys(g, {"entities", "relationships"})
    /\ g.d["entities"].t = "list"
    /\ g.d["relationships"].t = "list"
    /\ \A i \in 1..Len(g.d["entities"].l) :
          LET e == g.d["entities"].l[i]
          IN  HasKeys(e, {"id", "type", "name"}) /\ IsStr(e.d["id"])
    /\ \A i \in 1..Len(g.d["relationships"].l) :
          LET r == g.d["relationships"].l[i]
          IN  HasKeys(r, {"source", "target", "type"}) /\ IsStr(r.d["source"])
                /\ IsStr(r.d["target"])

\* C11: for a graph with string ids the chart starts with the header graph TD,
\* then holds for each entity in order a node line and a style line keyed by
\* the sanitized id, then for each relationship in order an edge line from the
\* sanitized source to the sanitized target labelled with its type; sanitizing
\* turns every space and hyphen into an underscore, for ids and endpoints alike,
\* so an edge that names an entity's id names that entity's node.
C11_ChartLines ==
    fn = "mermaid" /\ Chartable(arg.v) =>
        LET E == arg.v.d["entities"].l
            R == arg.v.d["relationships"].l
            L == out.val.lines
        IN  /\ out.kind = "return"
            /\ Len(L) = 1 + 2 * Len(E) + Len(R)
            /\ L[1] = << "graph TD" >>
            /\ \A i \in 1..Len(E) :
                  /\ SubSeq(L[2 * i], 1, 1 + Len(E[i].d["id"].s) + 1)
                        = << "    " >> \o Underscored(E[i].d["id"].s) \o << "[" >>
                  /\ SubSeq(L[2 * i + 1], 1, 1 + Len(E[i].d["id"].s) + 1)
                        = << "    style " >> \o Underscored(E[i].d["id"].s) \o << " " >>
            /\ \A j \in 1..Len(R) :
                  L[1 + 2 * Len(E) + j]
                      = << "    " >> \o Underscored(R[j].d["source"].s) \o << " -->|" >>
                          \o R[j].d["type"].s \o << "| " >> \o Underscored(R[j].d["target"].s)
            /\ \A i \in 1..Len(E), j \in 1..Len(R) :
                  R[j].d["source"] = E[i].d["id"] =>
                      SubSeq(L[1 + 2 * Len(E) + j], 2, 1 + Len(E[i].d["id"].s))
                          = SubSeq(L[2 * i], 2, 1 + Len(E[i].d["id"].s))

\* the entity "a b" and the edge from "a b" to "a-b": both drawn as a_b
C11_Witness ==
    /\ fn = "mermaid"
    /\ Chartable(arg.v)
    /\ arg.v.d["entities"].l = << Entity(IdSpace, "Amount"), Entity(IdHyphen, "RiskFactor") >>
    /\ arg.v.d["relationships"].l = << Rel(IdSpace, IdHyphen) >>
    /\ out.kind = "return"
    /\ out.val.lines[6] = << "    ", "a", "_", "b", " -->|", "OWNS", "| ", "a", "_", "b" >>

\* C18: the label of an entity's node line is the entity's name, followed by
\* the entity's value in parentheses when the entity has a non-empty value.
C18_LabelCarriesValue ==
    fn = "mermaid" /\ Chartable(arg.v) /\ out.kind = "return" =>
        \A i \in 1..Len(arg.v.d["entities"].l) :
            LET e == arg.v.d["entities"].l[i]
                hasValue == "value" \in DOMAIN e.d /\ Truthy(e.d["value"])
            IN  IF hasValue
                THEN Contains(out.val.lines[2 * i],
                              Format(e.d["name"]) \o << "(" >> \o Format(e.d["value"]) \o << ")" >>)
                     \/ Contains(out.val.lines[2 * i],
                              Format(e.d["name"]) \o << " ", "(" >> \o Format(e.d["value"]) \o << ")" >>)
                     \/ Contains(out.val.lines[2 * i],
                              Format(e.d["name"]) \o << "\n", "(" >> \o Format(e.d["value"]) \o << ")" >>)
                ELSE out.val.lines[2 * i]
                        = << "    " >> \o Underscored(e.d["id"].s) \o << "[", "dquote" >>
                            \o Format(e.d["name"]) \o << "dquote", "]" >>

-----------------------------------------------------------------------------
(* The prompt builder, the clean-up of fenced texts, the constructor. *)

C17_FenceWithAnyTag ==
    fn = "clean_fenced" => out.val = arg.interior

\* C20: for a provider other than groq or openai the constructor raises the
\* unknown-provider error, with or without an explicit key.
C20_UnknownProviderRejected ==
    fn = "init" /\ arg.api_provider \notin {"groq", "GROQ", "openai", "OpenAI"}
        => out = Raise("ValueError: Unknown API provider")

-----------------------------------------------------------------------------
(* What extract_knowledge_graph hands to its caller. *)

\* C19: whenever extract_knowledge_graph returns normally, the returned value
\* is a keyed record holding both top-level keys, entities and relationships,
\* whether the payload was valid or repaired; any other payload ends in an
\* exception.
C19_ReturnedHasBothKeys ==
    pc = "returned" =>
        /\ result.kind = "return"
        /\ IsDict(result.val)
        /\ {"entities", "relationships"} \subseteq DOMAIN result.val.d

\* a completion whose document had no entities key was returned, repaired
C19_Witness ==
    /\ pc = "returned"
    /\ \E i \in 1..Len(llm.val.s) :
          /\ IsDoc(llm.val.s[i])
          /\ IsDict(llm.val.s[i].v)
          /\ "entities" \notin DOMAIN llm.val.s[i].v.d
    /\ result.val.d["entities"] = JList(<< >>)

\* C15: in every graph extract_knowledge_graph returns, no two entity records
\* share an id.
C15_EntityIdsUnique ==
    pc = "returned" /\ IsDict(result.val) /\ "entities" \in DOMAIN result.val.d
                    /\ IsList(result.val.d["entities"]) =>
        LET es == result.val.d["entities"].l
        IN  \A i, j \in 1..Len(es) :
                /\ i # j
                /\ IsDict(es[i]) /\ "id" \in DOMAIN es[i].d
                /\ IsDict(es[j]) /\ "id" \in DOMAIN es[j].d
                => es[i].d["id"] # es[j].d["id"]

-----------------------------------------------------------------------------
(* main: the command line program around one call. *)

pipeVars == << pc, file, text, prompt, attempt, requests, sleeps, outcomes, llm,
               graph_data, result, stages >>

NoFile == [kind |-> "unopened"]

\* detector.extract_knowledge_graph(path) begins
StartCall(f) ==
    /\ pc' = "read"
    /\ file' = f
    /\ text' = << >>
    /\ prompt' = << >>
    /\ attempt' = 0
    /\ requests' = 0
    /\ sleeps' = << >>
    /\ outcomes' = << >>
    /\ llm' = Idle
    /\ graph_data' = Unset
    /\ result' = Pending
    /\ stages' = << >>

\* sys.exit(code), or the end of main
Exit(code) == [kind |-> "exit", code |-> code]

Exited(h, code) == [h EXCEPT !.pc = "exited", !.exit = Exit(code)]

\* open(..., 'w') and the write, plt.savefig: done, or an OS error
WriteOutcomes == { Ret(PyNone), Raise("OSError") }

\* a handler that reports the error and goes on
AfterStepGoOn(h, r, next) == [h EXCEPT !.pc = next]

\* a statement of the try block of lines 454-475: an exception ends main with code 1
AfterStep(h, r, next) == IF Raised(r) THEN Exited(h, 1) ELSE [h EXCEPT !.pc = next]

\* a rendering that was not asked for, failed, or was written (or not) to disk
Rendering(asked, r, io) ==
    [asked |-> asked, res |-> IF ~asked THEN Pending ELSE IF Raised(r) THEN r ELSE io]

\* if not os.path.exists(args.input): sys.exit(1)
MainCheckInput ==
    /\ host.kind = "main" /\ host.pc = "start"
    /\ \E e \in BOOLEAN :
          LET h == [host EXCEPT !.exists = e, !.steps = Append(@, "check_input")]
          IN  host' = IF e THEN [h EXCEPT !.pc = "construct"] ELSE Exited(h, 1)
    /\ UNCHANGED << pipeVars, fnVars >>

\* detector = FinancialDetective(api_provider=args.provider, api_key=args.api_key)
MainConstruct ==
    /\ host.kind = "main" /\ host.pc = "construct"
    /\ \E p \in {"groq", "openai"}, k \in KeyValues, e \in Environments :
          LET r == NewDetector(p, k, e)
              h == [host EXCEPT !.args = [api_provider |-> p, api_key |-> k, env |-> e],
                                !.init = r,
                                !.steps = Append(@, "construct")]
          IN  host' = IF Raised(r) THEN Exited(h, 1) ELSE [h EXCEPT !.pc = "extract"]
    /\ UNCHANGED << pipeVars, fnVars >>

\* graph_data = detector.extract_knowledge_graph(args.input)
MainExtract ==
    /\ host.kind = "main" /\ host.pc = "extract"
    /\ \E f \in Files : StartCall(f)
    /\ host' = [host EXCEPT !.pc = "extracting", !.steps = Append(@, "extract")]
    /\ UNCHANGED fnVars

MainExtractRaised ==
    /\ host.kind = "main" /\ host.pc = "extracting" /\ pc = "raised"
    /\ host' = AfterStep(host, result, "save")
    /\ UNCHANGED << pipeVars, fnVars >>

\* detector.save_graph_json(graph_data, args.output)
MainSave ==
    /\ host.kind = "main" /\ host.pc = "extracting" /\ pc = "returned"
    /\ \E io \in WriteOutcomes :
          host' = AfterStep([host EXCEPT !.save = io, !.steps = Append(@, "save")],
                            io, "visualize")
    /\ UNCHANGED << pipeVars, fnVars >>

\* if args.visualize: detector.visualize_graph(graph_data, ...)
MainVisualize ==
    /\ host.kind = "main" /\ host.pc = "visualize"
    /\ \E asked \in BOOLEAN, io \in WriteOutcomes :
          LET r == Rendering(asked, visualize_graph(result.val), io)
          IN  host' = AfterStep([host EXCEPT !.visualize = r,
                                             !.steps = Append(@, "visualize")],
                                r.res, "mermaid")
    /\ UNCHANGED << pipeVars, fnVars >>

\* if args.mermaid: detector.generate_mermaid_chart(graph_data, ...)
MainMermaid ==
    /\ host.kind = "main" /\ host.pc = "mermaid"
    /\ \E asked \in BOOLEAN, io \in WriteOutcomes :
          LET r == Rendering(asked, generate_mermaid_chart(result.val), io)
          IN  host' = AfterStep([host EXCEPT !.mermaid = r,
                                             !.steps = Append(@, "mermaid")],
                                r.res, "summary")
    /\ UNCHANGED << pipeVars, fnVars >>

\* the closing prints with len(graph_data[...]); then main ends
MainSummary ==
    /\ host.kind = "main" /\ host.pc = "summary"
    /\ host' = IF Raised(Report(result.val)) THEN Exited(host, 1) ELSE Exited(host, 0)
    /\ UNCHANGED << pipeVars, fnVars >>

InitMain ==
    /\ pc = "idle"
    /\ file = NoFile
    /\ text = << >>
    /\ prompt = << >>
    /\ attempt = 0
    /\ requests = 0
    /\ sleeps = << >>
    /\ outcomes = << >>
    /\ llm = Idle
    /\ graph_data = Unset
    /\ result = Pending
    /\ stages = << >>
    /\ fn = "none"
    /\ arg = [kind |-> "none"]
    /\ out = Pending
    /\ host = [kind |-> "main", pc |-> "start", exists |-> FALSE, args |-> Pending,
               init |-> Pending, save |-> Pending,
               visualize |-> Rendering(FALSE, Pending, Pending),
               mermaid |-> Rendering(FALSE, Pending, Pending),
               steps |-> << >>, exit |-> Pending]

NextMain ==
    \/ MainCheckInput
    \/ MainConstruct
    \/ MainExtract
    \/ Next
    \/ MainExtractRaised
    \/ MainSave
    \/ MainVisualize
    \/ MainMermaid
    \/ MainSummary

SpecMain == InitMain /\ [][NextMain]_vars

-----------------------------------------------------------------------------
(* The Streamlit page: session state across extraction attempts. *)

\* button presses followed in one session
MaxClicks == 2

\* st.session_state after the initialisation at the top of the script
NewSession == [graph_data |-> PyNone, extraction_complete |-> FALSE]

\* check_api_key(provider): os.getenv(K) or st.secrets.get(K, None)
check_api_key(provider, env, secrets) ==
    LET K == IF provider = "groq" THEN "GROQ_API_KEY" ELSE "OPENAI_API_KEY"
    IN  Truthy(env[K]) \/ Truthy(secrets[K])

\* get_api_key(provider): st.secrets.get(K) or os.getenv(K, "")
get_api_key(provider, env, secrets) ==
    LET K == IF provider = "groq" THEN "GROQ_API_KEY" ELSE "OPENAI_API_KEY"
    IN  IF Truthy(secrets[K]) THEN secrets[K]
        ELSE IF env[K] = PyNone THEN JStr(<< >>) ELSE env[K]

\* a handler that clears the stored graph when the attempt fails
SessionAfterCleared(session, r) ==
    IF r.kind = "return"
    THEN [graph_data |-> r.val, extraction_complete |-> TRUE]
    ELSE NewSession

\* the try block of the handler: the two assignments follow a returned graph;
\* except Exception only shows the error
SessionAfter(session, r) ==
    IF r.kind = "return"
    THEN [graph_data |-> r.val, extraction_complete |-> TRUE]
    ELSE session

\* the environments (or secrets) that differ in the one variable read for a provider
EnvOf(provider) ==
    LET K == IF provider = "groq" THEN "GROQ_API_KEY" ELSE "OPENAI_API_KEY"
    IN  { [v \in {"GROQ_API_KEY", "OPENAI_API_KEY"} |-> IF v = K THEN x ELSE PyNone] :
            x \in KeyValues }

\* the button is shown (text entered, key found) and pressed: the text goes to
\* a temporary file, the key is read again, the client is built, the call starts
UIClick ==
    /\ host.kind = "ui" /\ host.pc = "idle" /\ host.clicks < MaxClicks
    /\ \E p \in {"groq", "openai"}, d \in Documents :
       \E shown \in EnvOf(p) \X EnvOf(p), now \in EnvOf(p) \X EnvOf(p) :
          /\ check_api_key(p, shown[1], shown[2])
          /\ LET r == NewDetector(p, get_api_key(p, now[1], now[2]), now[1])
                 h == [host EXCEPT !.before = host.session, !.clicks = @ + 1, !.init = r]
             IN  IF Raised(r)
                 THEN /\ host' = [h EXCEPT !.session = SessionAfter(host.session, r),
                                           !.last = "construct_error"]
                      /\ pc' = "idle"
                      /\ file' = NoFile
                      /\ result' = Pending
                      /\ UNCHANGED << text, prompt, attempt, requests, sleeps, outcomes,
                                      llm, graph_data, stages >>
                 ELSE /\ host' = [h EXCEPT !.pc = "running", !.last = "running"]
                      /\ StartCall([kind |-> "text", s |-> d])
    /\ UNCHANGED fnVars

\* the call ended: lines 227-228 after a return, the except branch otherwise;
\* finally removes the temporary file
UIFinish ==
    /\ host.kind = "ui" /\ host.pc = "running" /\ pc \in {"returned", "raised"}
    /\ host' = [host EXCEPT !.pc = "idle",
                            !.session = SessionAfter(host.session, result),
                            !.last = pc]
    /\ UNCHANGED << pipeVars, fnVars >>

InitUI ==
    /\ pc = "idle"
    /\ file = NoFile
    /\ text = << >>
    /\ prompt = << >>
    /\ attempt = 0
    /\ requests = 0
    /\ sleeps = << >>
    /\ outcomes = << >>
    /\ llm = Idle
    /\ graph_data = Unset
    /\ result = Pending
    /\ stages = << >>
    /\ fn = "none"
    /\ arg = [kind |-> "none"]
    /\ out = Pending
    /\ host = [kind |-> "ui", pc |-> "idle", session |-> NewSession, before |-> NewSession,
               last |-> "none", clicks |-> 0, init |-> Pending]

NextUI ==
    \/ UIClick
    \/ Next
    \/ UIFinish

SpecUI == InitUI /\ [][NextUI]_vars

-----------------------------------------------------------------------------
(* main and the constructor: what the caller of the program sees. *)

Done(r) == r.kind = "return"

\* C12: main ends with code 1 when the input file does not exist, when the
\* client cannot be constructed, or when extraction, saving or a requested
\* rendering raises; it ends with code 0 exactly when extraction, saving and
\* every requested rendering succeeded; and the check of the input file comes
\* before any read of a credential and before any request.
C12_ExitCodes ==
    /\ host.pc = "exited" =>
        /\ host.exit.code \in {0, 1}
        /\ host.exit.code = 0 <=>
              /\ pc = "returned"
              /\ Done(host.save)
              /\ host.visualize.asked =>
                    Done(host.visualize.res) /\ Done(visualize_graph(result.val))
              /\ host.mermaid.asked =>
                    Done(host.mermaid.res) /\ Done(generate_mermaid_chart(result.val))
        /\ ~host.exists => host.exit.code = 1
        /\ Raised(host.init) => host.exit.code = 1
    /\ host.steps # << >> => host.steps[1] = "check_input"
    /\ ~host.exists => host.init = Pending /\ requests = 0 /\ pc = "idle"
    /\ Raised(host.init) => requests = 0 /\ pc = "idle"

\* code 0 with both renderings asked for
C12_Witness ==
    /\ host.pc = "exited"
    /\ host.exit.code = 0
    /\ host.visualize.asked
    /\ host.mermaid.asked
    /\ requests > 0

\* the environment variable the constructor reads for a provider
KeyVariable(provider) == IF provider = "groq" THEN "GROQ_API_KEY" ELSE "OPENAI_API_KEY"

\* C14: constructing a client for groq or openai with no explicit key and no
\* key in that provider's environment variable fails at once with a
\* configuration error: no client exists, no request is sent, nothing is
\* retried or slept.
C14_NoKeyNoClient ==
    /\ host.init # Pending
    /\ ~Truthy(host.args.api_key)
    /\ ~Truthy(host.args.env[KeyVariable(host.args.api_provider)])
    => /\ host.init = Raise("ValueError: API_KEY not found in environment")
       /\ host.pc = "exited"
       /\ pc = "idle"
       /\ requests = 0 /\ attempt = 0 /\ sleeps = << >> /\ outcomes = << >> /\ stages = << >>

\* openai asked for, no key given, only the groq variable set
C14_Witness ==
    /\ host.init # Pending
    /\ host.args.api_provider = "openai"
    /\ host.args.api_key = PyNone
    /\ host.args.env["OPENAI_API_KEY"] = PyNone
    /\ host.args.env["GROQ_API_KEY"] = JStr(<< "k" >>)
    /\ host.pc = "exited"

\* C13: across any sequence of extraction attempts in the page, an attempt
\* that fails (the client cannot be built, the call raises) leaves
\* session_state.graph_data and session_state.extraction_complete as they were
\* before it, so the last good graph stays; the stored graph changes only when
\* a call returns a graph, and then it is that graph.
C13_FailedAttemptKeepsSession ==
    /\ host.pc = "running" => host.session = host.before
    /\ host.pc = "idle" /\ host.last \in {"construct_error", "raised"} =>
          host.session = host.before
    /\ host.pc = "idle" /\ host.last = "returned" =>
          host.session = [graph_data |-> result.val, extraction_complete |-> TRUE]
    /\ host.session # NewSession =>
          host.session.extraction_complete /\ IsDict(host.session.graph_data)

\* a graph was stored by the first attempt and the second attempt failed
C13_Witness ==
    /\ host.pc = "idle"
    /\ host.clicks = 2
    /\ host.last = "raised"
    /\ host.before.extraction_complete
    /\ host.session.extraction_complete
    /\ IsDict(host.session.graph_data)

-----------------------------------------------------------------------------
(* The validator against the two renderers. *)

\* C21: every graph _validate_json_schema accepts can be rendered: on every
\* candidate for which the validator returns true, ids, names, sources and
\* targets that are no strings included, generate_mermaid_chart and
\* visualize_graph both end without raising.
C21_ValidatedRenders ==
    /\ fn \in {"mermaid", "visualize"}
    /\ arg.kind = "value"
    /\ _validate_json_schema(arg.v) = Ret(TRUE)
    => out.kind = "return"

====
